---- MODULE Spec2Model ----
\* Model of the inventory program of src/src/part_06/final_file.py:
\* Item / Container / MagicContainer objects on a heap, the ContainerManager
\* registry built by load_containers, and a loot session on a selected
\* container (ContainerSelectScreen, MainMenu.handle_loot_item).
EXTENDS Integers, Sequences, FiniteSets, TLC

VARIABLES
    objs,        \* heap of Python objects: id -> Item / Container / MagicContainer
    lists,       \* heap of Python list objects: list id -> sequence of object ids
    items,       \* ItemManager.items (object ids)
    containers,  \* ContainerManager.containers (object ids)
    files,       \* the four directive files read by load_containers
    pc,          \* position of gameloop / load_containers
    row,         \* next row of the file being read
    container,   \* MainMenu.container (0: not selected yet)
    other,       \* a second instance obtained from get_container_by_name (0: none)
    ncalls,      \* number of add_item calls made on the selected container
    call         \* the operation executed by the last step and its result

vars == <<objs, lists, items, containers, files, pc, row, container, other, ncalls, call>>

---------------------------------------------------------------------------
\* Bounds

\* add_item calls made in one session
MaxCalls == 3

---------------------------------------------------------------------------
\* Names are sequences of characters; str.strip() and str.lower() act on them.

UpperChars == <<"A","B","C","D","E","F","G","H","I","J","K","L","M",
                "N","O","P","Q","R","S","T","U","V","W","X","Y","Z">>
LowerChars == <<"a","b","c","d","e","f","g","h","i","j","k","l","m",
                "n","o","p","q","r","s","t","u","v","w","x","y","z">>
Whitespace == {" ", "\t", "\n"}

LowerChar(ch) ==
    IF \E i \in 1..Len(UpperChars) : UpperChars[i] = ch
    THEN LowerChars[CHOOSE i \in 1..Len(UpperChars) : UpperChars[i] = ch]
    ELSE ch

lower(s) == [i \in 1..Len(s) |-> LowerChar(s[i])]

strip(s) ==
    LET keep == {i \in 1..Len(s) : s[i] \notin Whitespace}
    IN  IF keep = {} THEN <<>>
        ELSE LET lo == CHOOSE i \in keep : \A j \in keep : i <= j
                 hi == CHOOSE i \in keep : \A j \in keep : j <= i
             IN  SubSeq(s, lo, hi)

---------------------------------------------------------------------------
\* Input data: the item catalogue and the directive files

\* the strings of the run; objects, files and user input refer to a string
\* by its position in this table
Strings ==
    << <<"B","a","c","k","p","a","c","k">>,
       <<"P","o","u","c","h">>,
       <<"R","i","g">>,
       <<"K","i","t">>,
       <<"E","n","c","h","a","n","t","e","d"," ","B","a","c","k","p","a","c","k">>,
       <<"E","n","c","h","a","n","t","e","d"," ","R","i","g">>,
       <<"R","o","p","e">>,
       <<"A","n","v","i","l">>,
       <<"C","o","i","n">>,
       <<"F","e","a","t","h","e","r">>,
       <<"N","o","t","h","i","n","g">>,
       <<" ","b","a","c","k","p","a","c","k"," ">> >>

Backpack      == 1
Pouch         == 2
Rig           == 3
Kit           == 4
Enchanted     == 5
EnchantedRig  == 6
Rope          == 7
Anvil         == 8
Coin          == 9
Feather       == 10
Nothing       == 11
TypedBackpack == 12

\* s.strip().lower() of every string of the table
Normalized == [i \in 1..Len(Strings) |-> lower(strip(Strings[i]))]

\* name.strip().lower() == query.strip().lower()
NameMatches(name, query) == Normalized[name] = Normalized[query]

\* rows of items.csv: (name, weight)
ItemRows == << <<Rope, 5>>, <<Anvil, 8>>, <<Coin, 1>>, <<Feather, 0>> >>

\* the sets of directive files the program is run with
Configs ==
    { [regular    |-> << <<Backpack, 2, 10>>, <<Pouch, 2, 3>> >>,
       multi      |-> << <<Rig, Backpack, Pouch>>, <<Kit, Pouch, Rig>> >>,
       magic      |-> << <<Enchanted, Backpack>> >>,
       multimagic |-> << <<EnchantedRig, Rig>> >>],
      [regular    |-> << <<Pouch, 1, 3>>, <<Backpack, 2, 10>>, <<TypedBackpack, 1, 4>> >>,
       multi      |-> << <<Rig, Pouch, Backpack>>, <<Kit, Nothing, Enchanted, Rig>> >>,
       magic      |-> << <<Enchanted, Backpack>>, <<EnchantedRig, Nothing>> >>,
       multimagic |-> << <<EnchantedRig, Kit>>, <<Enchanted, Enchanted>> >>] }

\* names typed by the user
SelectNames == {Backpack, Pouch, Rig, Kit, Enchanted, EnchantedRig, Nothing}
OtherNames  == {TypedBackpack, Rig, Enchanted}
LootNames   == {Rope, Anvil, Coin, Feather, Backpack, Pouch, Rig, Enchanted}
AttachNames == {Backpack}

---------------------------------------------------------------------------
\* Objects

NewItem(name, weight) ==
    [cls |-> "Item", name |-> name, weight |-> weight,
     weight_capacity |-> 0, items |-> 0, is_multi_container |-> FALSE]

\* Container.__init__ that starts with the multi-container flag set
NewContainer_Flagged(cls, name, weight, weight_capacity, listId) ==
    [cls |-> cls, name |-> name, weight |-> weight,
     weight_capacity |-> weight_capacity, items |-> listId,
     is_multi_container |-> TRUE]

NewContainer(cls, name, weight, weight_capacity, listId) ==
    [cls |-> cls, name |-> name, weight |-> weight,
     weight_capacity |-> weight_capacity, items |-> listId,
     is_multi_container |-> FALSE]

\* isinstance(x, Container)
IsContainer(o, x) == o[x].cls \in {"Container", "MagicContainer"}

\* self.items of a container
ItemsOf(o, l, c) == l[o[c].items]

RECURSIVE SumSeq(_)
SumSeq(s) == IF s = <<>> THEN 0 ELSE Head(s) + SumSeq(Tail(s))

---------------------------------------------------------------------------
\* Weight and capacity accounting

RECURSIVE get_current_weight(_, _, _)
RECURSIVE get_item_weight(_, _, _)
RECURSIVE add_item(_, _, _, _, _)

\* Item.get_current_weight / Item.get_item_weight
Item_get_current_weight(o, x) == o[x].weight

\* Container.get_item_weight and MagicContainer.get_item_weight (same body)
Container_get_item_weight(o, l, c) ==
    SumSeq([i \in 1..Len(ItemsOf(o, l, c)) |->
              IF ~IsContainer(o, ItemsOf(o, l, c)[i])
              THEN get_current_weight(o, l, ItemsOf(o, l, c)[i]) ELSE 0])

\* Container.get_current_weight
Container_get_current_weight(o, l, c) ==
    o[c].weight + SumSeq([i \in 1..Len(ItemsOf(o, l, c)) |->
                            get_item_weight(o, l, ItemsOf(o, l, c)[i])])

\* MagicContainer.get_current_weight not overridden: the inherited method
MagicContainer_get_current_weight_Inherited(o, l, c) ==
    Container_get_current_weight(o, l, c)

\* MagicContainer.get_current_weight
MagicContainer_get_current_weight(o, l, c) == o[c].weight

get_item_weight(o, l, x) ==
    IF o[x].cls = "Item" THEN Item_get_current_weight(o, x)
    ELSE Container_get_item_weight(o, l, x)

get_current_weight(o, l, x) ==
    CASE o[x].cls = "Item"           -> Item_get_current_weight(o, x)
      [] o[x].cls = "Container"      -> Container_get_current_weight(o, l, x)
      [] o[x].cls = "MagicContainer" -> MagicContainer_get_current_weight(o, l, x)

\* Container.get_current_capacity and MagicContainer.get_current_capacity
get_current_capacity(o, l, c) ==
    SumSeq([i \in 1..Len(ItemsOf(o, l, c)) |->
              IF ~IsContainer(o, ItemsOf(o, l, c)[i])
              THEN get_current_weight(o, l, ItemsOf(o, l, c)[i]) ELSE 0])

\* get_child_container_capacity that reserves nothing for the children
get_child_container_capacity_None(o, l, c) == 0

\* Container.get_child_container_capacity
get_child_container_capacity(o, l, c) ==
    SumSeq([i \in 1..Len(ItemsOf(o, l, c)) |->
              IF IsContainer(o, ItemsOf(o, l, c)[i])
              THEN o[ItemsOf(o, l, c)[i]].weight_capacity ELSE 0])

\* the capacity test without the capacity reserved for child containers
Fits_IgnoringChildContainers(o, l, c, item) ==
    get_current_weight(o, l, item) + get_current_capacity(o, l, c)
        <= o[c].weight_capacity

\* the capacity test of add_item, applied to container c:
\* item.get_current_weight() + c.get_current_capacity()
\*     <= c.weight_capacity - c.get_child_container_capacity()
Fits(o, l, c, item) ==
    get_current_weight(o, l, item) + get_current_capacity(o, l, c)
        <= o[c].weight_capacity - get_child_container_capacity(o, l, c)

---------------------------------------------------------------------------
\* add_item: the result is the heap after the call and the returned value

Result(o, l, ret) == [objs |-> o, lists |-> l, ret |-> ret]

\* self.items.insert(0, item) in place of append
AppendItem_AtFront(o, l, self, item) ==
    [l EXCEPT ![o[self].items] = <<item>> \o @]

\* self.items.append(item)
AppendItem(o, l, self, item) ==
    [l EXCEPT ![o[self].items] = Append(@, item)]

\* FirstQualifying without the capacity test: the loop recurses into the
\* first child container whatever it holds
FirstQualifying_NoTest(o, l, self, item) ==
    LET its == ItemsOf(o, l, self)
        q == {i \in 1..Len(its) : IsContainer(o, its[i])}
    IN  IF q = {} THEN 0
        ELSE its[CHOOSE i \in q : \A j \in q : i <= j]

\* the child the loop of add_item recurses into: the first child that is a
\* Container and passes the test (or any first child Container when the
\* item is a Container); 0 when the loop ends without recursing
FirstQualifying(o, l, self, item) ==
    LET its == ItemsOf(o, l, self)
        q == {i \in 1..Len(its) :
                 /\ IsContainer(o, its[i])
                 /\ (Fits(o, l, its[i], item) \/ IsContainer(o, item))}
    IN  IF q = {} THEN 0
        ELSE its[CHOOSE i \in q : \A j \in q : i <= j]

\* the direct placement tried after a recursive call r that stored nothing
DirectAfter(r, o, l, self, item) ==
    IF r.ret THEN r
    ELSE IF Fits(o, l, self, item)
         THEN Result(o, AppendItem(o, l, self, item), TRUE)
         ELSE Result(o, l, FALSE)

\* Container.add_item that returns the result of the recursive call and,
\* when the child has rejected the item, goes on to the direct placement
Container_add_item_Backtracks(o, l, self, item, start_load) ==
    IF IsContainer(o, item) /\ start_load
    THEN LET l1 == AppendItem(o, l, self, item)
             o1 == [o EXCEPT ![self].is_multi_container = TRUE]
             o2 == [o1 EXCEPT ![self].weight = @ + get_current_weight(o1, l1, item)]
             o3 == [o2 EXCEPT ![self].weight_capacity = @ + o2[item].weight_capacity]
         IN  Result(o3, l1, TRUE)
    ELSE LET sub == FirstQualifying(o, l, self, item)
         IN  IF sub # 0
             THEN DirectAfter(add_item(o, l, sub, item, FALSE), o, l, self, item)
             ELSE IF Fits(o, l, self, item)
                  THEN Result(o, AppendItem(o, l, self, item), TRUE)
                  ELSE Result(o, l, FALSE)

\* Container.add_item whose attach branch does not add the capacity of the
\* sub-container
Container_add_item_NoCapacity(o, l, self, item, start_load) ==
    IF IsContainer(o, item) /\ start_load
    THEN LET l1 == AppendItem(o, l, self, item)
             o1 == [o EXCEPT ![self].is_multi_container = TRUE]
             o2 == [o1 EXCEPT ![self].weight = @ + get_current_weight(o1, l1, item)]
         IN  Result(o2, l1, TRUE)
    ELSE LET sub == FirstQualifying(o, l, self, item)
         IN  IF sub # 0
             THEN [add_item(o, l, sub, item, FALSE) EXCEPT !.ret = TRUE]
             ELSE IF Fits(o, l, self, item)
                  THEN Result(o, AppendItem(o, l, self, item), TRUE)
                  ELSE Result(o, l, FALSE)

\* Container.add_item
Container_add_item(o, l, self, item, start_load) ==
    IF IsContainer(o, item) /\ start_load
    THEN LET l1 == AppendItem(o, l, self, item)
             o1 == [o EXCEPT ![self].is_multi_container = TRUE]
             o2 == [o1 EXCEPT ![self].weight = @ + get_current_weight(o1, l1, item)]
             o3 == [o2 EXCEPT ![self].weight_capacity = @ + o2[item].weight_capacity]
         IN  Result(o3, l1, TRUE)
    ELSE LET sub == FirstQualifying(o, l, self, item)
         IN  IF sub # 0
             THEN [add_item(o, l, sub, item, FALSE) EXCEPT !.ret = TRUE]
             ELSE IF Fits(o, l, self, item)
                  THEN Result(o, AppendItem(o, l, self, item), TRUE)
                  ELSE Result(o, l, FALSE)

\* MagicContainer.add_item without the capacity test of the direct placement:
\* a magic container that admits whatever no child container takes
MagicContainer_add_item_NoGate(o, l, self, item, start_load) ==
    IF IsContainer(o, item) /\ start_load
    THEN LET l1 == AppendItem(o, l, self, item)
             o1 == [o EXCEPT ![self].is_multi_container = TRUE]
             o2 == [o1 EXCEPT ![self].weight_capacity = @ + o1[item].weight_capacity]
         IN  Result(o2, l1, TRUE)
    ELSE LET sub == FirstQualifying(o, l, self, item)
         IN  IF sub # 0
             THEN [add_item(o, l, sub, item, FALSE) EXCEPT !.ret = TRUE]
             ELSE Result(o, AppendItem(o, l, self, item), TRUE)

\* MagicContainer.add_item
MagicContainer_add_item(o, l, self, item, start_load) ==
    IF IsContainer(o, item) /\ start_load
    THEN LET l1 == AppendItem(o, l, self, item)
             o1 == [o EXCEPT ![self].is_multi_container = TRUE]
             o2 == [o1 EXCEPT ![self].weight_capacity = @ + o1[item].weight_capacity]
         IN  Result(o2, l1, TRUE)
    ELSE LET sub == FirstQualifying(o, l, self, item)
         IN  IF sub # 0
             THEN [add_item(o, l, sub, item, FALSE) EXCEPT !.ret = TRUE]
             ELSE IF Fits(o, l, self, item)
                  THEN Result(o, AppendItem(o, l, self, item), TRUE)
                  ELSE Result(o, l, FALSE)

\* add_item that takes every Container it is given for a sub-container to
\* attach, whatever start_load says
add_item_AttachesCargo(o, l, self, item, start_load) ==
    IF o[self].cls = "MagicContainer"
    THEN MagicContainer_add_item(o, l, self, item, TRUE)
    ELSE Container_add_item(o, l, self, item, TRUE)

add_item(o, l, self, item, start_load) ==
    IF o[self].cls = "MagicContainer"
    THEN MagicContainer_add_item(o, l, self, item, start_load)
    ELSE Container_add_item(o, l, self, item, start_load)

---------------------------------------------------------------------------
\* copy.deepcopy and the registry lookup

\* the objects reachable from x through child lists
RECURSIVE Reach(_, _, _)
Reach(o, l, x) ==
    IF ~IsContainer(o, x) THEN {x}
    ELSE LET its == ItemsOf(o, l, x)
         IN  {x} \cup UNION {Reach(o, l, its[i]) : i \in 1..Len(its)}

ContainersIn(o, l, x) == {c \in Reach(o, l, x) : IsContainer(o, c)}
ListsIn(o, l, x) == {o[c].items : c \in ContainersIn(o, l, x)}

\* the elements of a set of ids, in increasing order
RECURSIVE SortedSeq(_)
SortedSeq(S) ==
    IF S = {} THEN <<>>
    ELSE LET m == CHOOSE y \in S : \A z \in S : y <= z
         IN  <<m>> \o SortedSeq(S \ {m})

Pos(seq, y) == CHOOSE i \in 1..Len(seq) : seq[i] = y

\* the heap with a copy of each object of rs and each list of ls added,
\* references between them redirected to the copies
CopyAll(o, l, rs, ls) ==
    [ref   |-> 0,
     objs  |-> o \o [i \in 1..Len(rs) |->
                       IF IsContainer(o, rs[i])
                       THEN [o[rs[i]] EXCEPT !.items = Len(l) + Pos(ls, @)]
                       ELSE o[rs[i]]],
     lists |-> l \o [k \in 1..Len(ls) |->
                       [i \in 1..Len(l[ls[k]]) |-> Len(o) + Pos(rs, l[ls[k]][i])]]]

\* copy.deepcopy(x): every object and list reachable from x is copied exactly
\* once (the memo), the copies are new heap cells
deepcopy(o, l, x) ==
    LET rs == SortedSeq(Reach(o, l, x))
    IN  [CopyAll(o, l, rs, SortedSeq(ListsIn(o, l, x))) EXCEPT !.ref = Len(o) + Pos(rs, x)]

\* FindContainer comparing the names as they are, neither trimmed nor
\* lower-cased
FindContainer_Exact(o, cs, container_name) ==
    LET m == {i \in 1..Len(cs) : o[cs[i]].name = container_name}
    IN  IF m = {} THEN 0 ELSE cs[CHOOSE i \in m : \A j \in m : i <= j]

\* the registered container get_container_by_name returns a copy of: the
\* first whose name matches; 0 when there is none
FindContainer(o, cs, container_name) ==
    LET m == {i \in 1..Len(cs) : NameMatches(o[cs[i]].name, container_name)}
    IN  IF m = {} THEN 0 ELSE cs[CHOOSE i \in m : \A j \in m : i <= j]

\* get_container_by_name without the copy: the registered instance itself
get_container_by_name_Live(o, l, cs, container_name) ==
    [objs |-> o, lists |-> l, ref |-> FindContainer(o, cs, container_name)]

\* ContainerManager.get_container_by_name; ref = 0 stands for None
get_container_by_name(o, l, cs, container_name) ==
    LET found == FindContainer(o, cs, container_name)
    IN  IF found = 0 THEN [objs |-> o, lists |-> l, ref |-> 0]
        ELSE deepcopy(o, l, found)

\* ItemManager.get_item_by_name: the live catalogue object, 0 for None
get_item_by_name(o, is, item_to_find) ==
    LET m == {i \in 1..Len(is) : NameMatches(o[is[i]].name, item_to_find)}
    IN  IF m = {} THEN 0 ELSE is[CHOOSE i \in m : \A j \in m : i <= j]

\* convert_container_to_magic that does not copy the multi-container flag
convert_container_to_magic_NoFlag(o, c, magic_name) ==
    Append(o, NewContainer("MagicContainer", magic_name, o[c].weight,
                           o[c].weight_capacity, o[c].items))

\* MagicContainer.convert_container_to_magic: a new object that shares the
\* source's list
convert_container_to_magic(o, c, magic_name) ==
    Append(o, [NewContainer("MagicContainer", magic_name, o[c].weight,
                            o[c].weight_capacity, o[c].items)
               EXCEPT !.is_multi_container = o[c].is_multi_container])

---------------------------------------------------------------------------
\* __str__ and list_items

DigitChars == <<"0", "1", "2", "3", "4", "5", "6", "7", "8", "9">>

\* the decimal text an f-string writes for a natural number
RECURSIVE format_int(_)
format_int(n) ==
    IF n < 10 THEN <<DigitChars[n + 1]>>
    ELSE format_int(n \div 10) \o <<DigitChars[(n % 10) + 1]>>

\* capacity_display of __str__:
\* f"{self.get_current_capacity()}/{self.weight_capacity}"
capacity_display(o, l, c) ==
    format_int(get_current_capacity(o, l, c)) \o <<"/">> \o format_int(o[c].weight_capacity)

\* Container.__str__ without the "0/0" of multi containers
Container_str_NoOverride(o, l, c) ==
    [name         |-> Strings[o[c].name],
     total_weight |-> format_int(get_current_weight(o, l, c)),
     empty_weight |-> format_int(o[c].weight),
     capacity     |-> capacity_display(o, l, c)]

\* Container.__str__: the fields the f-string writes
Container_str(o, l, c) ==
    [name         |-> Strings[o[c].name],
     total_weight |-> format_int(get_current_weight(o, l, c)),
     empty_weight |-> format_int(o[c].weight),
     capacity     |-> IF o[c].is_multi_container THEN <<"0", "/", "0">>
                      ELSE capacity_display(o, l, c)]

\* MagicContainer.__str__
MagicContainer_str(o, l, c) ==
    [name         |-> Strings[o[c].name],
     total_weight |-> format_int(get_current_weight(o, l, c)),
     empty_weight |-> format_int(o[c].weight),
     capacity     |-> IF o[c].is_multi_container THEN <<"0", "/", "0">>
                      ELSE capacity_display(o, l, c)]

\* str(container)
str(o, l, c) ==
    IF o[c].cls = "MagicContainer" THEN MagicContainer_str(o, l, c)
    ELSE Container_str(o, l, c)

\* a printed line: the number of "   " indents written before the text of
\* object obj
Line(indent, obj) == [indent |-> indent, obj |-> obj]

\* Container.list_items(depth): the lines printed, in order. The line of the
\* container itself carries no indent of its own; the caller has written
\* the indent of a child container before calling its list_items.
RECURSIVE list_items(_, _, _, _)
RECURSIVE list_children(_, _, _, _)

list_children(o, l, its, depth) ==
    IF its = <<>> THEN <<>>
    ELSE (IF IsContainer(o, Head(its))
          THEN [list_items(o, l, Head(its), depth + 1) EXCEPT ![1].indent = depth]
          ELSE <<Line(depth, Head(its))>>)
         \o list_children(o, l, Tail(its), depth)

list_items(o, l, c, depth) ==
    <<Line(0, c)>> \o list_children(o, l, ItemsOf(o, l, c), depth)

---------------------------------------------------------------------------
\* The program: gameloop

\* the operation a step executed: op, the receiver and argument of the
\* add_item call it made (0 when it made none), the value returned and the
\* lists the call appended to; a lookup records the instance returned (self)
\* and the name asked for (item)
Call(op, self, item, start_load, ret, placed) ==
    [op |-> op, self |-> self, item |-> item, start_load |-> start_load,
     ret |-> ret, placed |-> placed]

\* ItemManager.load_items: one Item per row
RECURSIVE LoadItems(_)
LoadItems(rows) ==
    IF rows = <<>> THEN <<>>
    ELSE <<NewItem(Head(rows)[1], Head(rows)[2])>> \o LoadItems(Tail(rows))

Init ==
    /\ objs = LoadItems(ItemRows)
    /\ lists = <<>>
    /\ items = [i \in 1..Len(ItemRows) |-> i]
    /\ containers = <<>>
    /\ files \in Configs
    /\ pc = "regular"
    /\ row = 1
    /\ container = 0
    /\ other = 0
    /\ ncalls = 0
    /\ call = Call("load_items", 0, 0, FALSE, FALSE, {})

\* load_containers, regular containers: Container(name, int(empty), int(capacity))
LoadRegular ==
    /\ pc = "regular"
    /\ row <= Len(files.regular)
    /\ LET r == files.regular[row]
       IN  /\ lists' = Append(lists, <<>>)
           /\ objs' = Append(objs, NewContainer("Container", r[1], r[2], r[3], Len(lists) + 1))
           /\ containers' = Append(containers, Len(objs) + 1)
    /\ row' = row + 1
    /\ call' = Call("load_regular", 0, 0, FALSE, FALSE, {})
    /\ UNCHANGED <<items, files, pc, container, other, ncalls>>

\* the loop over row[1:] of a multi container row: look each child up and
\* attach the copy to the mother
RECURSIVE AttachChildren(_, _, _, _, _)
RECURSIVE AttachNext(_, _, _, _)

\* if child_container: mother_container.add_item(child_container, start_load=True)
AttachChild(o, l, cs, mother, names, g) ==
    IF g.ref = 0
    THEN AttachChildren(o, l, cs, mother, Tail(names))
    ELSE AttachNext(cs, mother, names, add_item(g.objs, g.lists, mother, g.ref, TRUE))

AttachNext(cs, mother, names, a) ==
    AttachChildren(a.objs, a.lists, cs, mother, Tail(names))

AttachChildren(o, l, cs, mother, names) ==
    IF names = <<>> THEN [objs |-> o, lists |-> l]
    ELSE AttachChild(o, l, cs, mother, names,
                     get_container_by_name(o, l, cs, Head(names)))

\* load_containers, one row of the multi container file
LoadMulti ==
    /\ pc = "multi"
    /\ row <= Len(files.multi)
    /\ LET r == files.multi[row]
           mother == Len(objs) + 1
           l0 == Append(lists, <<>>)
           o0 == Append(objs, NewContainer("Container", r[1], 0, 0, Len(lists) + 1))
       IN  \E a \in {AttachChildren(o0, l0, containers, mother, Tail(r))} :
               /\ objs' = a.objs
               /\ lists' = a.lists
               /\ containers' = Append(containers, mother)
    /\ row' = row + 1
    /\ call' = Call("load_multi", Len(objs) + 1, 0, FALSE, FALSE, {})
    /\ UNCHANGED <<items, files, pc, container, other, ncalls>>

\* one row (magic_container_name, container_name) of a magic file; the step
\* records the MagicContainer made (self) and the copy it was made from (item)
MagicRow(r, op) ==
    /\ \E g \in {get_container_by_name(objs, lists, containers, r[2])} :
           IF g.ref = 0
           THEN /\ UNCHANGED <<objs, lists, containers>>
                /\ call' = Call(op, 0, 0, FALSE, FALSE, {})
           ELSE /\ objs' = convert_container_to_magic(g.objs, g.ref, r[1])
                /\ lists' = g.lists
                /\ containers' = Append(containers, Len(g.objs) + 1)
                /\ call' = Call(op, Len(g.objs) + 1, g.ref, FALSE, TRUE, {})
    /\ row' = row + 1
    /\ UNCHANGED <<items, files, pc, container, other, ncalls>>

\* load_containers, one row of the magic container file
LoadMagic ==
    /\ pc = "magic"
    /\ row <= Len(files.magic)
    /\ MagicRow(files.magic[row], "load_magic")

\* load_containers, one row of the multi-magic container file
LoadMultiMagic ==
    /\ pc = "multimagic"
    /\ row <= Len(files.multimagic)
    /\ MagicRow(files.multimagic[row], "load_multimagic")

\* load_containers reading the magic file before the multi container file
NextFile_MagicBeforeMulti ==
    /\ \/ pc = "regular"    /\ row > Len(files.regular)    /\ pc' = "magic"
       \/ pc = "magic"      /\ row > Len(files.magic)      /\ pc' = "multi"
       \/ pc = "multi"      /\ row > Len(files.multi)      /\ pc' = "multimagic"
       \/ pc = "multimagic" /\ row > Len(files.multimagic) /\ pc' = "run"
    /\ row' = 1
    /\ call' = Call("next_file", 0, 0, FALSE, FALSE, {})
    /\ UNCHANGED <<objs, lists, items, containers, files, container, other, ncalls>>

\* load_containers goes on to the next file, and returns after the last
NextFile ==
    /\ \/ pc = "regular"    /\ row > Len(files.regular)    /\ pc' = "multi"
       \/ pc = "multi"      /\ row > Len(files.multi)      /\ pc' = "magic"
       \/ pc = "magic"      /\ row > Len(files.magic)      /\ pc' = "multimagic"
       \/ pc = "multimagic" /\ row > Len(files.multimagic) /\ pc' = "run"
    /\ row' = 1
    /\ call' = Call("next_file", 0, 0, FALSE, FALSE, {})
    /\ UNCHANGED <<objs, lists, items, containers, files, container, other, ncalls>>

\* ContainerSelectScreen.handle_choice: the selected copy becomes
\* MainMenu.container; an unknown name asks again
SelectContainer(choice) ==
    /\ pc = "run"
    /\ container = 0
    /\ \E g \in {get_container_by_name(objs, lists, containers, choice)} :
           /\ objs' = g.objs
           /\ lists' = g.lists
           /\ container' = g.ref
           /\ call' = Call("select", g.ref, choice, FALSE, g.ref # 0, {})
    /\ UNCHANGED <<items, containers, files, pc, row, other, ncalls>>

\* a further caller of get_container_by_name keeps the instance it is given
Lookup(container_name) ==
    /\ pc = "run"
    /\ other = 0
    /\ \E g \in {get_container_by_name(objs, lists, containers, container_name)} :
           /\ objs' = g.objs
           /\ lists' = g.lists
           /\ other' = g.ref
           /\ call' = Call("lookup", g.ref, container_name, FALSE, g.ref # 0, {})
    /\ UNCHANGED <<items, containers, files, pc, row, container, ncalls>>

\* the lookup of handle_loot_item: the catalogue item of that name, else a
\* copy of the registered container of that name, else None (ref = 0)
LookupItem(o, l, is, cs, item_name) ==
    IF get_item_by_name(o, is, item_name) # 0
    THEN [objs |-> o, lists |-> l, ref |-> get_item_by_name(o, is, item_name)]
    ELSE get_container_by_name(o, l, cs, item_name)

\* the item is looked up as in handle_loot_item (catalogue first, then a
\* copy of a registered container) and handed to add_item of the selected
\* container
AddByName(item_name, start_load, op) ==
    /\ \E g \in {LookupItem(objs, lists, items, containers, item_name)} :
           IF g.ref = 0
           THEN /\ UNCHANGED <<objs, lists, ncalls>>
                /\ call' = Call("not_found", 0, 0, FALSE, FALSE, {})
           ELSE \E a \in {add_item(g.objs, g.lists, container, g.ref, start_load)} :
                    /\ objs' = a.objs
                    /\ lists' = a.lists
                    /\ ncalls' = ncalls + 1
                    /\ call' = Call(op, container, g.ref, start_load, a.ret,
                                     {k \in 1..Len(g.lists) : a.lists[k] # g.lists[k]})
    /\ UNCHANGED <<items, containers, files, pc, row, container, other>>

\* MainMenu.handle_loot_item
LootItem(item_name) ==
    /\ pc = "run"
    /\ container # 0
    /\ ncalls < MaxCalls
    /\ AddByName(item_name, FALSE, "add_item")

\* add_item(sub_container, start_load=True) on the selected container
AttachContainer(container_name) ==
    /\ pc = "run"
    /\ container # 0
    /\ ncalls < MaxCalls
    /\ AddByName(container_name, TRUE, "add_item")

Next ==
    \/ LoadRegular
    \/ LoadMulti
    \/ LoadMagic
    \/ LoadMultiMagic
    \/ NextFile
    \/ \E choice \in SelectNames : SelectContainer(choice)
    \/ \E n \in OtherNames : Lookup(n)
    \/ \E n \in LootNames : LootItem(n)
    \/ \E n \in AttachNames : AttachContainer(n)

Spec == Init /\ [][Next]_vars

TypeOK ==
    /\ pc \in {"regular", "multi", "magic", "multimagic", "run"}
    /\ ncalls \in 0..MaxCalls
    /\ \A i \in 1..Len(containers) : IsContainer(objs, containers[i])

---------------------------------------------------------------------------
\* Vocabulary of the properties

\* used_capacity: the weights of the direct non-container children
used_capacity(o, l, c) ==
    SumSeq([i \in 1..Len(ItemsOf(o, l, c)) |->
              IF IsContainer(o, ItemsOf(o, l, c)[i]) THEN 0
              ELSE o[ItemsOf(o, l, c)[i]].weight])

\* reserved_child_capacity: the capacities of the direct child containers
reserved_child_capacity(o, l, c) ==
    SumSeq([i \in 1..Len(ItemsOf(o, l, c)) |->
              IF IsContainer(o, ItemsOf(o, l, c)[i])
              THEN o[ItemsOf(o, l, c)[i]].weight_capacity ELSE 0])

\* container c has room for a cargo of weight w
HasRoom(o, l, c, w) ==
    w + used_capacity(o, l, c) <= o[c].weight_capacity - reserved_child_capacity(o, l, c)

\* the weight of all leaf items anywhere in the subtree of c
RECURSIVE LeafWeight(_, _, _)
LeafWeight(o, l, c) ==
    SumSeq([i \in 1..Len(ItemsOf(o, l, c)) |->
              IF IsContainer(o, ItemsOf(o, l, c)[i])
              THEN LeafWeight(o, l, ItemsOf(o, l, c)[i])
              ELSE o[ItemsOf(o, l, c)[i]].weight])

\* the weight a cargo presents to the capacity test: its weight for a leaf,
\* its total carried weight for a container
CargoWeight(o, l, x) ==
    IF IsContainer(o, x) THEN o[x].weight + LeafWeight(o, l, x) ELSE o[x].weight

\* the heap at the moment add_item is entered in a step: the heap before the
\* step together with the copy the lookup of the step has made
BObjs  == objs \o SubSeq(objs', Len(objs) + 1, Len(objs'))
BLists == lists \o SubSeq(lists', Len(lists) + 1, Len(lists'))

\* the step made an add_item call / one that places cargo / one that attaches
IsCall == call'.op = "add_item"
IsAttach == IsCall /\ call'.start_load /\ IsContainer(objs', call'.item)
IsCargo == IsCall /\ ~(call'.start_load /\ IsContainer(objs', call'.item))
IsLeafCargo == IsCargo /\ ~IsContainer(objs', call'.item)

\* the lists of the subtree of c that the step appended item x to, and
\* whether the step changed the lists of the subtree of c in no other way
AppendedIn(c, x) ==
    {k \in ListsIn(BObjs, BLists, c) : lists'[k] = Append(BLists[k], x)}
OnlyAppended(c, x) ==
    \A k \in ListsIn(BObjs, BLists, c) :
        lists'[k] = BLists[k] \/ lists'[k] = Append(BLists[k], x)
SubtreeUnchanged(c) ==
    \A k \in ListsIn(BObjs, BLists, c) : lists'[k] = BLists[k]

---------------------------------------------------------------------------
\* Properties

\* C1: when cargo i has no room in container c (i.weight + used_capacity(c) >
\* c.capacity - reserved_child_capacity(c)) nor in any descendant container
\* of c, c.add_item(i) returns False and every child list in the subtree of
\* c is the same before and after the call.
C1_RejectedLeavesTreeUnchanged ==
    [][ (/\ IsCargo
         /\ \A n \in ContainersIn(BObjs, BLists, call'.self) :
                ~HasRoom(BObjs, BLists, n, CargoWeight(BObjs, BLists, call'.item)))
        => (call'.ret = FALSE /\ SubtreeUnchanged(call'.self)) ]_vars

\* C2: add_item(s, start_load=True) with a container s, on a Container or a
\* MagicContainer c, returns True, appends s as the last child of c, adds
\* s.capacity to c.capacity and s.total_carried_weight() to c.own_weight.
C2_AttachUpdatesCapacityAndWeight ==
    [][ IsAttach =>
        LET c == call'.self
            s == call'.item
        IN  /\ call'.ret = TRUE
            /\ lists'[objs'[c].items] = Append(BLists[BObjs[c].items], s)
            /\ objs'[c].weight_capacity = BObjs[c].weight_capacity + BObjs[s].weight_capacity
            /\ objs'[c].weight = BObjs[c].weight + get_current_weight(BObjs, BLists, s) ]_vars

\* the positions b of the children of p such that the child at b is a
\* container with room for weight w and no container child before b has room
FirstWithRoom(o, l, p, w) ==
    {b \in 1..Len(ItemsOf(o, l, p)) :
        /\ IsContainer(o, ItemsOf(o, l, p)[b])
        /\ HasRoom(o, l, ItemsOf(o, l, p)[b], w)
        /\ \A a \in 1..(b - 1) :
               IsContainer(o, ItemsOf(o, l, p)[a]) => ~HasRoom(o, l, ItemsOf(o, l, p)[a], w)}

\* the positions a < b of the container children of p
ContainersBefore(o, l, p, b) ==
    {a \in 1..(b - 1) : IsContainer(o, ItemsOf(o, l, p)[a])}

\* C3 as stated: a leaf item that has no room in child container A but has
\* room in the later child container B is appended to the children of B; the
\* children of A and of the parent are unchanged and add_item returns True.
C3_FirstFitIntoChildrenOfB ==
    [][ IsLeafCargo =>
        LET p == call'.self
            x == call'.item
        IN  \A b \in FirstWithRoom(BObjs, BLists, p, BObjs[x].weight) :
                ContainersBefore(BObjs, BLists, p, b) # {} =>
                    LET B == ItemsOf(BObjs, BLists, p)[b]
                    IN  /\ lists'[objs'[B].items] = Append(BLists[BObjs[B].items], x)
                        /\ \A a \in ContainersBefore(BObjs, BLists, p, b) :
                               lists'[objs'[ItemsOf(BObjs, BLists, p)[a]].items]
                                   = BLists[BObjs[ItemsOf(BObjs, BLists, p)[a]].items]
                        /\ lists'[objs'[p].items] = BLists[BObjs[p].items]
                        /\ call'.ret = TRUE ]_vars

\* C3 (amended): a leaf item that has no room in child container A but has
\* room in the later child container B is appended to exactly one child list
\* in the subtree of B: to the children of B itself when no child container
\* of B has room for it, else inside the first child container of B that
\* has; the subtree of A and the child list of the parent are unchanged and
\* add_item returns True.
C3_FirstFitIntoSubtreeOfB ==
    [][ IsLeafCargo =>
        LET p == call'.self
            x == call'.item
            w == BObjs[x].weight
        IN  \A b \in FirstWithRoom(BObjs, BLists, p, w) :
                ContainersBefore(BObjs, BLists, p, b) # {} =>
                    LET B == ItemsOf(BObjs, BLists, p)[b]
                        inner == FirstWithRoom(BObjs, BLists, B, w)
                    IN  /\ Cardinality(AppendedIn(B, x)) = 1
                        /\ OnlyAppended(B, x)
                        /\ IF inner = {}
                           THEN AppendedIn(B, x) = {BObjs[B].items}
                           ELSE \A c \in inner :
                                   AppendedIn(B, x) \subseteq
                                       ListsIn(BObjs, BLists, ItemsOf(BObjs, BLists, B)[c])
                        /\ \A a \in ContainersBefore(BObjs, BLists, p, b) :
                               SubtreeUnchanged(ItemsOf(BObjs, BLists, p)[a])
                        /\ lists'[objs'[p].items] = BLists[BObjs[p].items]
                        /\ call'.ret = TRUE ]_vars

\* C3 witness: the last call placed a leaf item below the selected container,
\* inside a child container B that comes after a child container without
\* room for the item.
C3_Witness ==
    /\ call.op = "add_item"
    /\ ~IsContainer(objs, call.item)
    /\ call.ret = TRUE
    /\ \E b \in 1..Len(ItemsOf(objs, lists, call.self)) :
          LET its == ItemsOf(objs, lists, call.self)
          IN  /\ IsContainer(objs, its[b])
              /\ call.placed # {}
              /\ call.placed \subseteq ListsIn(objs, lists, its[b])
              /\ ContainersBefore(objs, lists, call.self, b) # {}
              /\ \A a \in ContainersBefore(objs, lists, call.self, b) :
                     ~HasRoom(objs, lists, its[a], objs[call.item].weight)

\* C4: the weight a MagicContainer reports (get_current_weight) is, after
\* every step, the tare weight it had before the step: no add_item call
\* (placement, container cargo, attach; accepted or rejected) changes it,
\* whatever the container holds.
C4_MagicWeightIsTare ==
    [][ \A m \in 1..Len(BObjs) :
            BObjs[m].cls = "MagicContainer" =>
                /\ objs'[m].cls = "MagicContainer"
                /\ get_current_weight(objs', lists', m) = BObjs[m].weight ]_vars

\* C4 witness: the magic conversion of Backpack (tare 2, capacity 10) holds
\* exactly Rope (weight 5): it reports weight 2 and used capacity 5.
C4_Witness ==
    /\ container # 0
    /\ call.op = "add_item"
    /\ call.ret = TRUE
    /\ objs[container].cls = "MagicContainer"
    /\ objs[container].name = Enchanted
    /\ objs[container].weight_capacity = 10
    /\ Len(ItemsOf(objs, lists, container)) = 1
    /\ objs[ItemsOf(objs, lists, container)[1]].name = Rope
    /\ get_current_weight(objs, lists, container) = 2
    /\ get_current_capacity(objs, lists, container) = 5

\* the container nodes and child lists of the registry
RegistryNodes(o, l, cs) == UNION {ContainersIn(o, l, cs[i]) : i \in 1..Len(cs)}
RegistryLists(o, l, cs) == UNION {ListsIn(o, l, cs[i]) : i \in 1..Len(cs)}

\* C5: the instances returned by two calls of get_container_by_name share no
\* container node and no child list with each other or with the registry,
\* and an add_item call on one of them changes no field and no child list
\* of the other or of any registered container, at any depth.
C5_RegistryCopyIsolation ==
    [][ /\ \E rn \in {RegistryNodes(objs', lists', containers')},
               cn \in {IF container' # 0 THEN ContainersIn(objs', lists', container') ELSE {}},
               on \in {IF other' # 0 THEN ContainersIn(objs', lists', other') ELSE {}} :
               /\ cn \cap rn = {}
               /\ on \cap rn = {}
               /\ cn \cap on = {}
               /\ {objs'[n].items : n \in cn} \cap {objs'[n].items : n \in rn} = {}
               /\ {objs'[n].items : n \in on} \cap {objs'[n].items : n \in rn} = {}
               /\ {objs'[n].items : n \in cn} \cap {objs'[n].items : n \in on} = {}
        /\ IsCall =>
            /\ \A n \in RegistryNodes(objs, lists, containers) : objs'[n] = objs[n]
            /\ \A k \in RegistryLists(objs, lists, containers) : lists'[k] = lists[k]
            /\ other # 0 =>
                /\ \A n \in ContainersIn(objs, lists, other) : objs'[n] = objs[n]
                /\ \A k \in ListsIn(objs, lists, other) : lists'[k] = lists[k] ]_vars

\* C5 witness: two lookups of the same name have returned two instances and
\* an add_item call has just stored an item in the first one.
C5_Witness ==
    /\ container # 0
    /\ other # 0
    /\ NameMatches(objs[container].name, objs[other].name)
    /\ call.op = "add_item"
    /\ call.ret = TRUE
    /\ call.placed # {}
    /\ ItemsOf(objs, lists, container) # ItemsOf(objs, lists, other)

\* C6: when no child container of c takes a leaf item, add_item appends the
\* item as the last child of c and returns True if item.weight +
\* used_capacity(c) <= c.capacity - reserved_child_capacity(c), and
\* otherwise returns False and stores the item nowhere.
C6_DirectFitGate ==
    [][ (IsLeafCargo /\ FirstWithRoom(BObjs, BLists, call'.self, BObjs[call'.item].weight) = {}) =>
        LET c == call'.self
            x == call'.item
        IN  IF HasRoom(BObjs, BLists, c, BObjs[x].weight)
            THEN /\ call'.ret = TRUE
                 /\ lists'[objs'[c].items] = Append(BLists[BObjs[c].items], x)
            ELSE /\ call'.ret = FALSE
                 /\ SubtreeUnchanged(c) ]_vars

\* C6 witness: Backpack (tare 2, capacity 10) holding Rope (5) has just
\* rejected Anvil (8) and still holds only Rope.
C6_Witness ==
    /\ container # 0
    /\ objs[container].name = Backpack
    /\ objs[container].weight = 2
    /\ objs[container].weight_capacity = 10
    /\ Len(ItemsOf(objs, lists, container)) = 1
    /\ objs[ItemsOf(objs, lists, container)[1]].name = Rope
    /\ call.op = "add_item"
    /\ call.self = container
    /\ objs[call.item].name = Anvil
    /\ call.ret = FALSE

\* C7: for every cargo, add_item returns True exactly when the item was
\* appended to the child list of exactly one container of the subtree.
C7_ResultIsFaithful ==
    [][ IsCargo =>
        /\ OnlyAppended(call'.self, call'.item)
        /\ call'.ret = (Cardinality(AppendedIn(call'.self, call'.item)) = 1) ]_vars

\* C8: a leaf item is rejected by a root container only when no container
\* anywhere in the subtree of the root has room for it.
C8_RejectedOnlyWhenNoRoomAnywhere ==
    [][ (IsLeafCargo /\ call'.ret = FALSE) =>
        \A n \in ContainersIn(BObjs, BLists, call'.self) :
            ~HasRoom(BObjs, BLists, n, BObjs[call'.item].weight) ]_vars

\* C9: get_current_weight() of every plain Container, at any depth, is its
\* own_weight plus the weight of all leaf items anywhere in its subtree.
C9_WeightIsOwnPlusAllLeaves ==
    \A c \in 1..Len(objs) :
        objs[c].cls = "Container" =>
            get_current_weight(objs, lists, c) = objs[c].weight + LeafWeight(objs, lists, c)

\* the containers on the path from c down to the container that owns list k
PathTo(o, l, c, k) == {n \in ContainersIn(o, l, c) : k \in ListsIn(o, l, n)}

\* C10: after every successful add_item of cargo, every container on the
\* path from the receiver of the call to the container the item was stored
\* in carries at most its capacity: own_weight + the weight of all leaf items
\* in its subtree <= own_weight + capacity.
C10_CarriedWeightWithinCapacity ==
    [][ (IsCargo /\ call'.ret = TRUE) =>
        \A k \in AppendedIn(call'.self, call'.item) :
            \A n \in PathTo(objs', lists', call'.self, k) :
                objs'[n].weight + LeafWeight(objs', lists', n)
                    <= objs'[n].weight + objs'[n].weight_capacity ]_vars

\* the containers of the subtree of c that have m among their direct children
ParentsOf(o, l, c, m) ==
    {p \in ContainersIn(o, l, c) :
        \E i \in 1..Len(ItemsOf(o, l, p)) : ItemsOf(o, l, p)[i] = m}

\* C11: when a leaf item is successfully placed in a MagicContainer m that is
\* a child of container p, p.get_current_weight() is the same before and
\* after the call.
C11_MagicChildHidesItsItems ==
    [][ (IsLeafCargo /\ call'.ret = TRUE) =>
        \A m \in ContainersIn(BObjs, BLists, call'.self) :
            (/\ BObjs[m].cls = "MagicContainer"
             /\ lists'[BObjs[m].items] = Append(BLists[BObjs[m].items], call'.item)) =>
                \A p \in ParentsOf(BObjs, BLists, call'.self, m) :
                    get_current_weight(objs', lists', p)
                        = get_current_weight(BObjs, BLists, p) ]_vars

\* the heap in which container c is of the other container class: a plain
\* Container in place of a MagicContainer and the reverse, every field and
\* every child list kept
WithOtherClass(o, c) ==
    [o EXCEPT ![c].cls = IF @ = "MagicContainer" THEN "Container" ELSE "MagicContainer"]

\* C12: an add_item call with a leaf item on a container and the same call on
\* its twin of the other class (plain for magic, magic for plain; equal
\* capacity, equal child lists) return the same result and leave the same
\* child lists at every depth, so the two stay twins after every call of a
\* sequence.
C12_MagicAdmitsAsPlain ==
    [][ IsLeafCargo =>
        \E t \in {add_item(WithOtherClass(BObjs, call'.self), BLists,
                           call'.self, call'.item, FALSE)} :
            /\ t.ret = call'.ret
            /\ t.lists = lists'
            /\ t.objs = WithOtherClass(objs', call'.self) ]_vars

\* C12 witness: a MagicContainer that holds a leaf item has just rejected
\* another leaf item for lack of room.
C12_Witness ==
    /\ call.op = "add_item"
    /\ objs[call.self].cls = "MagicContainer"
    /\ ~IsContainer(objs, call.item)
    /\ call.ret = FALSE
    /\ \E i \in 1..Len(ItemsOf(objs, lists, call.self)) :
           ~IsContainer(objs, ItemsOf(objs, lists, call.self)[i])
    /\ ~HasRoom(objs, lists, call.self, objs[call.item].weight)

\* the step converted a container to a MagicContainer
IsConversion == call'.op \in {"load_magic", "load_multimagic"} /\ call'.self # 0

\* the magic name of the directive a conversion step has read
DirectiveName ==
    IF call'.op = "load_magic" THEN files.magic[row][1] ELSE files.multimagic[row][1]

\* x is a child of container c
Holds(o, l, c, x) == \E i \in 1..Len(ItemsOf(o, l, c)) : ItemsOf(o, l, c)[i] = x

DirectiveSource ==
    IF call'.op = "load_magic" THEN files.magic[row][2] ELSE files.multimagic[row][2]

\* a container whose trimmed, lower-cased name is that of name n is registered
Registered(o, cs, n) ==
    \E i \in 1..Len(cs) : Normalized[o[cs[i]].name] = Normalized[n]

\* the registry (its entries, every container node and child list below
\* them) is the same before and after the step
RegistryUnchanged ==
    /\ \A i \in 1..Len(containers) : containers'[i] = containers[i]
    /\ \A n \in RegistryNodes(objs, lists, containers) : objs'[n] = objs[n]
    /\ \A k \in RegistryLists(objs, lists, containers) : lists'[k] = lists[k]

\* C14: a magic directive (magic_name, source_name) whose source is
\* registered adds a MagicContainer named magic_name to the registry and
\* leaves the entry of source_name registered, with the same weight,
\* capacity, flag and child list, sharing no child list with the new
\* MagicContainer; once loading is over each such directive has its
\* MagicContainer registered, and no add_item call on a MagicContainer
\* obtained by lookup changes any registered container.
C14_SourceStaysRegistered ==
    [][ /\ call'.op \in {"load_magic", "load_multimagic"} =>
            /\ (call'.self # 0) <=> Registered(objs, containers, DirectiveSource)
            /\ call'.self # 0 =>
                /\ containers' = Append(containers, call'.self)
                /\ objs'[call'.self].cls = "MagicContainer"
                /\ objs'[call'.self].name = DirectiveName
                /\ RegistryUnchanged
                /\ FindContainer(objs', containers', DirectiveSource)
                       = FindContainer(objs, containers, DirectiveSource)
                /\ ListsIn(objs', lists', call'.self)
                       \cap RegistryLists(objs, lists, containers) = {}
        /\ pc' = "run" =>
            \A r \in {files.magic[i] : i \in 1..Len(files.magic)}
                     \cup {files.multimagic[i] : i \in 1..Len(files.multimagic)} :
                Registered(objs', containers', r[2]) =>
                    \E i \in 1..Len(containers') :
                        /\ objs'[containers'[i]].cls = "MagicContainer"
                        /\ objs'[containers'[i]].name = r[1]
        /\ (IsCall /\ objs'[call'.self].cls = "MagicContainer") =>
            /\ containers' = containers
            /\ RegistryUnchanged ]_vars

\* C14 witness: the MagicContainer obtained by lookup of Enchanted Backpack
\* has just stored a leaf item, and the registered Backpack it was converted
\* from is still registered and empty.
C14_Witness ==
    /\ call.op = "add_item"
    /\ call.ret = TRUE
    /\ objs[call.self].cls = "MagicContainer"
    /\ objs[call.self].name = Enchanted
    /\ ~IsContainer(objs, call.item)
    /\ Holds(objs, lists, call.self, call.item)
    /\ FindContainer(objs, containers, Backpack) # 0
    /\ ItemsOf(objs, lists, FindContainer(objs, containers, Backpack)) = <<>>
    /\ objs[FindContainer(objs, containers, Backpack)].weight_capacity = 10

\* the trees below a and b are equal in every field and at every depth
RECURSIVE SameTree(_, _, _, _)
SameTree(o, l, a, b) ==
    /\ o[a].cls = o[b].cls
    /\ o[a].name = o[b].name
    /\ o[a].weight = o[b].weight
    /\ o[a].weight_capacity = o[b].weight_capacity
    /\ o[a].is_multi_container = o[b].is_multi_container
    /\ IsContainer(o, a) =>
           /\ Len(ItemsOf(o, l, a)) = Len(ItemsOf(o, l, b))
           /\ \A i \in 1..Len(ItemsOf(o, l, a)) :
                  SameTree(o, l, ItemsOf(o, l, a)[i], ItemsOf(o, l, b)[i])

\* the child names of the composite directive a load_multi step has read
DirectiveChildren == Tail(files.multi[row])

\* C15: a composite directive (mother_name, child_1..child_k) whose children
\* are all registered registers a container named mother_name whose children
\* are copies of the named containers in directive order, whose capacity is
\* the sum of the children's capacities, whose own weight is the sum of the
\* children's total carried weights, whose composite flag is true and whose
\* displayed capacity is 0/0.
C15_CompositeAssembly ==
    [][ (/\ call'.op = "load_multi"
         /\ \A i \in 1..Len(DirectiveChildren) :
                Registered(objs, containers, DirectiveChildren[i])) =>
        LET m == call'.self
            kids == ItemsOf(objs', lists', m)
        IN  /\ containers' = Append(containers, m)
            /\ RegistryUnchanged
            /\ objs'[m].cls = "Container"
            /\ objs'[m].name = files.multi[row][1]
            /\ Len(kids) = Len(DirectiveChildren)
            /\ \A i \in 1..Len(kids) :
                   /\ SameTree(objs', lists', kids[i],
                               FindContainer(objs, containers, DirectiveChildren[i]))
                   /\ ContainersIn(objs', lists', kids[i])
                          \cap RegistryNodes(objs, lists, containers) = {}
                   /\ ListsIn(objs', lists', kids[i])
                          \cap RegistryLists(objs, lists, containers) = {}
            /\ objs'[m].weight_capacity
                   = SumSeq([i \in 1..Len(kids) |-> objs'[kids[i]].weight_capacity])
            /\ objs'[m].weight
                   = SumSeq([i \in 1..Len(kids) |->
                               objs'[kids[i]].weight + LeafWeight(objs', lists', kids[i])])
            /\ objs'[m].is_multi_container
            /\ str(objs', lists', m).capacity = <<"0", "/", "0">> ]_vars

\* C15 witness: Rig has just been assembled from Backpack (capacity 10) and
\* Pouch (capacity 3): capacity 13, composite, displayed capacity 0/0.
C15_Witness ==
    /\ call.op = "load_multi"
    /\ objs[call.self].name = Rig
    /\ Len(ItemsOf(objs, lists, call.self)) = 2
    /\ objs[ItemsOf(objs, lists, call.self)[1]].name = Backpack
    /\ objs[ItemsOf(objs, lists, call.self)[1]].weight_capacity = 10
    /\ objs[ItemsOf(objs, lists, call.self)[2]].name = Pouch
    /\ objs[ItemsOf(objs, lists, call.self)[2]].weight_capacity = 3
    /\ objs[call.self].weight_capacity = 13
    /\ objs[call.self].is_multi_container
    /\ str(objs, lists, call.self).capacity = <<"0", "/", "0">>
    /\ containers[Len(containers)] = call.self

\* C16: a composite directive that names a child that is not registered, or
\* a magic directive whose source is not registered, is dropped: the step
\* registers nothing and changes no registered container, and loading goes
\* on with the next row.
C16_AbsentNameDropsDirective ==
    [][ /\ (/\ call'.op = "load_multi"
            /\ \E i \in 1..Len(DirectiveChildren) :
                   ~Registered(objs, containers, DirectiveChildren[i])) =>
               (containers' = containers /\ RegistryUnchanged /\ row' = row + 1)
        /\ (/\ call'.op \in {"load_magic", "load_multimagic"}
            /\ ~Registered(objs, containers, DirectiveSource)) =>
               (containers' = containers /\ RegistryUnchanged /\ row' = row + 1) ]_vars

\* the step called get_container_by_name for a user
IsLookup == call'.op \in {"select", "lookup"}

\* the positions of the registered containers whose trimmed, lower-cased
\* name is that of q
MatchesOf(o, cs, q) ==
    {i \in 1..Len(cs) : Normalized[o[cs[i]].name] = Normalized[q]}

\* C17: get_container_by_name(q) returns a copy, equal at every depth and
\* made of new objects and new lists only, of the earliest registered
\* container whose trimmed, lower-cased name equals q trimmed and
\* lower-cased, and None when there is none; the registry and every object
\* that existed before the call are unchanged.
C17_LookupReturnsCopyOfFirstMatch ==
    [][ IsLookup =>
        LET q == call'.item
            c == call'.self
            m == MatchesOf(objs, containers, q)
        IN  /\ containers' = containers
            /\ SubSeq(objs', 1, Len(objs)) = objs
            /\ SubSeq(lists', 1, Len(lists)) = lists
            /\ IF m = {}
               THEN c = 0 /\ call'.ret = FALSE /\ objs' = objs /\ lists' = lists
               ELSE /\ call'.ret = TRUE
                    /\ \E i \in m :
                           /\ \A j \in m : i <= j
                           /\ SameTree(objs', lists', c, containers[i])
                    /\ \A n \in Reach(objs', lists', c) : n > Len(objs)
                    /\ \A k \in ListsIn(objs', lists', c) : k > Len(lists) ]_vars

\* C17 witness: with Backpack (capacity 10) registered before " backpack "
\* (capacity 4), the lookup of " backpack " has just returned a copy of the
\* first of the two.
C17_Witness ==
    /\ call.op = "lookup"
    /\ call.item = TypedBackpack
    /\ call.self # 0
    /\ call.self = other
    /\ Cardinality(MatchesOf(objs, containers, TypedBackpack)) = 2
    /\ objs[other].name = Backpack
    /\ objs[other].weight_capacity = 10
    /\ other \notin RegistryNodes(objs, lists, containers)

\* C18: once load_containers has returned, no two registered containers have
\* the same trimmed, lower-cased name, and get_container_by_name with the
\* name of a registered container finds that very container.
C18_RegistryKeyedByName ==
    pc = "run" =>
        /\ \A i, j \in 1..Len(containers) :
               Normalized[objs[containers[i]].name] = Normalized[objs[containers[j]].name]
                   => i = j
        /\ \A i \in 1..Len(containers) :
               FindContainer(objs, containers, objs[containers[i]].name) = containers[i]

\* C19: the capacity every container (plain or magic) displays is the text
\* "used_capacity/capacity", used_capacity being the sum of the weights of
\* its direct non-container children, when its composite flag is false, and
\* the text "0/0" when the flag is true.
C19_DisplayedCapacity ==
    \A c \in 1..Len(objs) :
        IsContainer(objs, c) =>
            str(objs, lists, c).capacity =
                IF objs[c].is_multi_container
                THEN <<"0", "/", "0">>
                ELSE format_int(used_capacity(objs, lists, c)) \o <<"/">>
                         \o format_int(objs[c].weight_capacity)

\* C19 witness: the selected Backpack (tare 2, capacity 10) holds Rope (5)
\* and displays 5/10, and a registered composite container with capacity 13
\* displays 0/0.
C19_Witness ==
    /\ container # 0
    /\ objs[container].name = Backpack
    /\ objs[container].weight = 2
    /\ Len(ItemsOf(objs, lists, container)) = 1
    /\ objs[ItemsOf(objs, lists, container)[1]].name = Rope
    /\ str(objs, lists, container).capacity = <<"5", "/", "1", "0">>
    /\ \E i \in 1..Len(containers) :
           /\ objs[containers[i]].is_multi_container
           /\ objs[containers[i]].weight_capacity = 13
           /\ str(objs, lists, containers[i]).capacity = <<"0", "/", "0">>

\* the characters of the names in increasing code point order
CodeOrder == <<" ">> \o UpperChars \o LowerChars
Ord(ch) == CHOOSE i \in 1..Len(CodeOrder) : CodeOrder[i] = ch

\* s < t for two strings
RECURSIVE StrLess(_, _)
StrLess(s, t) ==
    IF t = <<>> THEN FALSE
    ELSE IF s = <<>> THEN TRUE
    ELSE IF Head(s) = Head(t) THEN StrLess(Tail(s), Tail(t))
    ELSE Ord(Head(s)) < Ord(Head(t))

\* the objects of a child list sorted by name, objects of equal name in the
\* order of the list
RECURSIVE InsertByName(_, _, _)
InsertByName(o, x, s) ==
    IF s = <<>> THEN <<x>>
    ELSE IF StrLess(Strings[o[x].name], Strings[o[Head(s)].name]) THEN <<x>> \o s
    ELSE <<Head(s)>> \o InsertByName(o, x, Tail(s))

RECURSIVE SortedByName(_, _)
SortedByName(o, its) ==
    IF its = <<>> THEN <<>>
    ELSE InsertByName(o, its[Len(its)], SortedByName(o, SubSeq(its, 1, Len(its) - 1)))

\* the listing in order of name: the line of the container first, then, for each
\* child in order of name, the line of a leaf or the listing of a child
\* container, one indent deeper
RECURSIVE SortedListing(_, _, _, _)
RECURSIVE SortedListingOf(_, _, _, _)
SortedListingOf(o, l, its, indent) ==
    IF its = <<>> THEN <<>>
    ELSE (IF IsContainer(o, Head(its))
          THEN SortedListing(o, l, Head(its), indent)
          ELSE <<Line(indent, Head(its))>>)
         \o SortedListingOf(o, l, Tail(its), indent)
SortedListing(o, l, c, indent) ==
    <<Line(indent, c)>>
        \o SortedListingOf(o, l, SortedByName(o, ItemsOf(o, l, c)), indent + 1)

\* C20: list_items of the selected container prints a depth-first listing:
\* the line of each container before the lines of its children, each child
\* one indent deeper than its parent, the children of every container in
\* order of name.
C20_ListingSortedByName ==
    container # 0 =>
        list_items(objs, lists, container, 1) = SortedListing(objs, lists, container, 0)

\* sequence s is a prefix of sequence t
IsPrefix(s, t) == Len(s) <= Len(t) /\ SubSeq(t, 1, Len(s)) = s

\* the containers of the hierarchy a call works on: the subtree of the
\* receiver and, for a container argument, the subtree of the argument
HierarchyOf(o, l, c, x) ==
    ContainersIn(o, l, c) \cup (IF IsContainer(o, x) THEN ContainersIn(o, l, x) ELSE {})

\* C21: in every step (every add_item call of the session, every attach of
\* the load) the child sequence every container had before is a prefix of
\* the one it has after, and one add_item call adds at most one child in the
\* whole hierarchy.
C21_ChildrenOnlyAppended ==
    [][ /\ \A k \in 1..Len(BLists) : IsPrefix(BLists[k], lists'[k])
        /\ \A n \in 1..Len(BObjs) :
               IsContainer(BObjs, n) =>
                   IsContainer(objs', n) /\ objs'[n].items = BObjs[n].items
        /\ IsCall =>
               LET H == HierarchyOf(BObjs, BLists, call'.self, call'.item)
                   grown == {n \in H : lists'[BObjs[n].items] # BLists[BObjs[n].items]}
               IN  /\ Cardinality(grown) <= 1
                   /\ \A n \in grown :
                          lists'[BObjs[n].items]
                              = Append(BLists[BObjs[n].items], call'.item) ]_vars

\* C21 witness: the last add_item call appended its item after the children
\* a container already had.
C21_Witness ==
    /\ call.op = "add_item"
    /\ call.ret = TRUE
    /\ \E k \in call.placed :
           /\ Len(lists[k]) >= 2
           /\ lists[k][Len(lists[k])] = call.item
           /\ lists[k][1] # call.item

\* the positions (child list, index) of the hierarchy of c that hold object x
PositionsOf(o, l, c, x) ==
    {<<k, i>> \in ListsIn(o, l, c) \X (1..Len(o)) : i <= Len(l[k]) /\ l[k][i] = x}

\* C22: in every state of a loot session no Item instance occupies more than
\* one position in the child lists of the hierarchy of the selected
\* container, and no step changes the name or weight of a leaf Item.
C22_LeafItemsUnshared ==
    [][ /\ container' # 0 =>
               \A x \in 1..Len(objs') :
                   objs'[x].cls = "Item" =>
                       Cardinality(PositionsOf(objs', lists', container', x)) <= 1
        /\ \A x \in 1..Len(objs) :
               objs[x].cls = "Item" => objs'[x] = objs[x] ]_vars

\* container c has a child that is a container
HasContainerChild(o, l, c) ==
    \E i \in 1..Len(ItemsOf(o, l, c)) : IsContainer(o, ItemsOf(o, l, c)[i])

\* C23: the composite flag of a container is false when the container is
\* constructed, is true after an attach to it, never goes back to false, is
\* true only on a container that has a child container, and is changed on no
\* container by the placement of cargo, a Container placed without the
\* attach flag included.
C23_FlagSetByAttachOnly ==
    [][ /\ call'.op = "load_regular" => ~objs'[Len(objs')].is_multi_container
        /\ call'.op = "load_multi" =>
               (objs'[call'.self].is_multi_container
                    <=> HasContainerChild(objs', lists', call'.self))
        /\ IsAttach => objs'[call'.self].is_multi_container
        /\ IsCargo =>
               \A n \in 1..Len(BObjs) :
                   objs'[n].is_multi_container = BObjs[n].is_multi_container
        /\ \A n \in 1..Len(BObjs) :
               BObjs[n].is_multi_container => objs'[n].is_multi_container
        /\ \A n \in 1..Len(objs') :
               objs'[n].is_multi_container => HasContainerChild(objs', lists', n) ]_vars

\* C23 witness: a Container has just been stored as ordinary cargo directly
\* in the receiver of the call, whose composite flag is still false.
C23_Witness ==
    /\ call.op = "add_item"
    /\ ~call.start_load
    /\ IsContainer(objs, call.item)
    /\ call.ret = TRUE
    /\ call.placed = {objs[call.self].items}
    /\ HasContainerChild(objs, lists, call.self)
    /\ ~objs[call.self].is_multi_container

\* the pairs (p, c) of the subtree of r: container p with a direct child
\* container c
ChildContainerPairs(o, l, r) ==
    {pc_ \in ContainersIn(o, l, r) \X ContainersIn(o, l, r) :
        Holds(o, l, pc_[1], pc_[2])}

\* C24: whatever the cargo (a leaf Item, or a Container passed without the
\* attach flag), add_item goes down into a child container c only if the
\* weight of the cargo + used_capacity(c) <= c.capacity -
\* reserved_child_capacity(c): cargo ends up in the subtree of a child
\* container only if that child passed the capacity test.
C24_RoutingFollowsCapacityCheck ==
    [][ IsCargo =>
        \A pc_ \in ChildContainerPairs(BObjs, BLists, call'.self) :
            AppendedIn(pc_[2], call'.item) # {} =>
                HasRoom(BObjs, BLists, pc_[2],
                        get_current_weight(BObjs, BLists, call'.item)) ]_vars

Qualifying(o, l, p, x) ==
    {b \in 1..Len(ItemsOf(o, l, p)) :
        /\ IsContainer(o, ItemsOf(o, l, p)[b])
        /\ \/ IsContainer(o, x)
           \/ HasRoom(o, l, ItemsOf(o, l, p)[b], get_current_weight(o, l, x))}

\* C26: in one add_item call, a container p of the hierarchy that has a
\* qualifying child container sees its cargo go nowhere but into the subtree
\* of the first of them: no child list of a later sibling and not the child
\* list of p itself is changed, also when nothing was stored below that
\* child.
C26_NoBacktracking ==
    [][ IsCargo =>
        \A p \in ContainersIn(BObjs, BLists, call'.self) :
            \A b \in Qualifying(BObjs, BLists, p, call'.item) :
                (\A a \in Qualifying(BObjs, BLists, p, call'.item) : b <= a) =>
                    \A k \in ListsIn(BObjs, BLists, p)
                             \ ListsIn(BObjs, BLists, ItemsOf(BObjs, BLists, p)[b]) :
                        lists'[k] = BLists[k] ]_vars

\* C26 witness: the receiver has room for the Container cargo of the call,
\* but its first child container was tried and rejected it: nothing was
\* stored, the receiver did not try itself, and the call returned True.
C26_Witness ==
    /\ call.op = "add_item"
    /\ ~call.start_load
    /\ IsContainer(objs, call.item)
    /\ call.placed = {}
    /\ call.ret = TRUE
    /\ HasContainerChild(objs, lists, call.self)
    /\ HasRoom(objs, lists, call.self, get_current_weight(objs, lists, call.item))

\* the rows of the directive file of a load phase
FileOf(phase) ==
    CASE phase = "regular"    -> files.regular
      [] phase = "multi"      -> files.multi
      [] phase = "magic"      -> files.magic
      [] phase = "multimagic" -> files.multimagic
      [] OTHER                -> <<>>

\* the load operation of a load phase
LoadOpOf(phase) ==
    CASE phase = "regular"    -> "load_regular"
      [] phase = "multi"      -> "load_multi"
      [] phase = "magic"      -> "load_magic"
      [] phase = "multimagic" -> "load_multimagic"
      [] OTHER                -> "none"

\* the names of a sequence that are registered in registry cs, in order
RECURSIVE RegisteredOf(_, _, _)
RegisteredOf(o, cs, names) ==
    IF names = <<>> THEN <<>>
    ELSE IF Registered(o, cs, Head(names))
         THEN <<Head(names)>> \o RegisteredOf(o, cs, Tail(names))
         ELSE RegisteredOf(o, cs, Tail(names))

\* C27: load_containers reads the regular, multi, magic and multi-magic
\* files in that order, each to its end before the next and each row by
\* row; a row registers at most one container, at the end of the registry,
\* and nothing is registered after the load. A composite row attaches
\* copies of exactly those of its children that the rows before it have
\* registered, in row order; a magic row converts its source exactly when
\* the rows before it have registered that name, whatever the class of the
\* registered container.
C27_GroupsLoadInOrder ==
    [][ /\ pc' # pc =>
            /\ <<pc, pc'>> \in {<<"regular", "multi">>, <<"multi", "magic">>,
                                <<"magic", "multimagic">>, <<"multimagic", "run">>}
            /\ row = Len(FileOf(pc)) + 1
            /\ row' = 1
            /\ containers' = containers
        /\ pc' = pc /\ pc # "run" =>
            /\ row <= Len(FileOf(pc))
            /\ row' = row + 1
            /\ call'.op = LoadOpOf(pc)
            /\ IsPrefix(containers, containers')
            /\ Len(containers') <= Len(containers) + 1
        /\ pc = "run" => pc' = "run" /\ containers' = containers
        /\ call'.op = "load_multi" =>
            \E kept \in {RegisteredOf(objs, containers, DirectiveChildren)} :
                /\ Len(ItemsOf(objs', lists', call'.self)) = Len(kept)
                /\ \A i \in 1..Len(kept) :
                       SameTree(objs', lists', ItemsOf(objs', lists', call'.self)[i],
                                FindContainer(objs, containers, kept[i]))
        /\ call'.op \in {"load_magic", "load_multimagic"} =>
            /\ call'.self # 0 <=> Registered(objs, containers, DirectiveSource)
            /\ call'.self # 0 =>
                   /\ containers' = Append(containers, call'.self)
                   /\ SameTree(objs', lists', call'.item,
                               FindContainer(objs, containers, DirectiveSource)) ]_vars

\* C27 witness: the load has just converted a MagicContainer that the magic
\* file had registered, and the registry holds a composite whose row named
\* three children, one of them that MagicContainer, registered only after
\* the row was read: the composite has the one child that was registered
\* before it.
C27_Witness ==
    /\ call.op = "load_multimagic"
    /\ call.self # 0
    /\ objs[call.item].cls = "MagicContainer"
    /\ \E i \in 1..Len(containers), j \in 1..Len(files.multi) :
           /\ objs[containers[i]].name = files.multi[j][1]
           /\ Len(files.multi[j]) = 4
           /\ Len(ItemsOf(objs, lists, containers[i])) = 1
           /\ \E n \in 2..4 : /\ Registered(objs, containers, files.multi[j][n])
                              /\ \A q \in 1..Len(ItemsOf(objs, lists, containers[i])) :
                                     ~NameMatches(objs[ItemsOf(objs, lists, containers[i])[q]].name,
                                                  files.multi[j][n])

\* used_capacity + reserved_child_capacity <= capacity holds of container c
WithinCapacity(o, l, c) ==
    used_capacity(o, l, c) + reserved_child_capacity(o, l, c) <= o[c].weight_capacity

\* C28: every container of the registry satisfies used_capacity +
\* reserved_child_capacity <= capacity, so does every container of a
\* hierarchy just selected, and an attach or the placement of a leaf item
\* on a hierarchy whose containers all satisfy it leaves every container of
\* the hierarchy satisfying it.
C28_CapacityInvariant ==
    [][ /\ \A n \in RegistryNodes(objs', lists', containers') :
               WithinCapacity(objs', lists', n)
        /\ call'.op = "select" /\ call'.ret =>
               \A n \in ContainersIn(objs', lists', container') :
                   WithinCapacity(objs', lists', n)
        /\ (IsAttach \/ IsLeafCargo)
             /\ (\A n \in ContainersIn(BObjs, BLists, call'.self) :
                     WithinCapacity(BObjs, BLists, n))
           => \A n \in ContainersIn(objs', lists', call'.self) :
                     WithinCapacity(objs', lists', n) ]_vars

\* C28 witness: a container that has been attached to the selected
\* container holds a leaf item of positive weight, the selected container
\* has just stored another one among its own children, and used_capacity +
\* reserved_child_capacity of the selected container is positive in both
\* terms and within its capacity.
C28_Witness ==
    /\ call.op = "add_item"
    /\ ~IsContainer(objs, call.item)
    /\ call.placed = {objs[call.self].items}
    /\ objs[call.item].weight > 0
    /\ objs[call.self].is_multi_container
    /\ used_capacity(objs, lists, call.self) > 0
    /\ reserved_child_capacity(objs, lists, call.self) > 0
    /\ WithinCapacity(objs, lists, call.self)
    /\ \E i \in 1..Len(ItemsOf(objs, lists, call.self)) :
           /\ IsContainer(objs, ItemsOf(objs, lists, call.self)[i])
           /\ used_capacity(objs, lists, ItemsOf(objs, lists, call.self)[i]) > 0

\* container c is a copy of a composite of the registry cs: the registered
\* container of its name has been given child containers by the load
LoadedComposite(o, cs, c) ==
    /\ c # 0
    /\ FindContainer(o, cs, o[c].name) # 0
    /\ o[FindContainer(o, cs, o[c].name)].is_multi_container

\* the direct children of container c that are leaf items of positive weight
HeavyLeaves(o, l, c) ==
    {i \in 1..Len(ItemsOf(o, l, c)) :
        ~IsContainer(o, ItemsOf(o, l, c)[i]) /\ o[ItemsOf(o, l, c)[i]].weight > 0}

\* C29: a composite registered by load_containers (a mother container or
\* the MagicContainer made from one) has capacity equal to the capacities of
\* its child containers and only containers as children; the selected copy
\* of one keeps that equality through every add_item call and never has a
\* leaf item of positive weight among its own children: such an item, when
\* accepted, is stored in a child list of a descendant.
C29_CompositeHoldsNoLeaf ==
    [][ /\ \A i \in 1..Len(containers') :
               objs'[containers'[i]].is_multi_container =>
                   /\ objs'[containers'[i]].weight_capacity =
                          reserved_child_capacity(objs', lists', containers'[i])
                   /\ \A q \in 1..Len(ItemsOf(objs', lists', containers'[i])) :
                          IsContainer(objs', ItemsOf(objs', lists', containers'[i])[q])
        /\ LoadedComposite(objs', containers', container') =>
               /\ objs'[container'].weight_capacity =
                      reserved_child_capacity(objs', lists', container')
               /\ HeavyLeaves(objs', lists', container') = {}
        /\ IsLeafCargo /\ call'.ret /\ objs'[call'.item].weight > 0
             /\ LoadedComposite(objs', containers', call'.self)
           => /\ call'.placed # {}
              /\ call'.placed \subseteq ListsIn(BObjs, BLists, call'.self)
                                          \ {objs'[call'.self].items} ]_vars

\* C29 witness: the selected copy of a registered composite, here the
\* MagicContainer made from a mother container, has accepted a leaf item of
\* positive weight, which is now a child of one of its descendants and not
\* of the composite.
C29_Witness ==
    /\ call.op = "add_item"
    /\ objs[call.self].cls = "MagicContainer"
    /\ call.ret
    /\ ~IsContainer(objs, call.item)
    /\ objs[call.item].weight > 0
    /\ LoadedComposite(objs, containers, call.self)
    /\ ~Holds(objs, lists, call.self, call.item)
    /\ \E n \in ContainersIn(objs, lists, call.self) \ {call.self} :
           /\ Holds(objs, lists, n, call.item)
           /\ call.placed = {objs[n].items}

\* the objects held by the containers of set S
ChildrenOf(o, l, S) ==
    UNION {{ItemsOf(o, l, n)[i] : i \in 1..Len(ItemsOf(o, l, n))} :
             n \in {m \in S : IsContainer(o, m)}}

\* the objects reachable from those of S, computed as a fixpoint so that it
\* is defined also when a container is reachable from itself
RECURSIVE Descendants(_, _, _)
Grow(o, l, S, C) == IF C \subseteq S THEN S ELSE Descendants(o, l, S \cup C)

Descendants(o, l, S) == Grow(o, l, S, ChildrenOf(o, l, S))

\* the number of places among the containers of N where a container is a
\* child
ContainerPlaces(o, l, N) ==
    SumSeq([n \in 1..Len(o) |->
              IF n \in N
              THEN Cardinality({i \in 1..Len(ItemsOf(o, l, n)) :
                                   IsContainer(o, ItemsOf(o, l, n)[i])})
              ELSE 0])

\* the containers N, all reachable from c, form a tree with root c: every
\* one but c is a child at one place at least, so with one place fewer than
\* containers c is the child of none and every other one of exactly one;
\* and no two of them have the same child list
IsTreeOf(o, l, N, c) ==
    /\ ContainerPlaces(o, l, N) = Cardinality(N) - 1
    /\ Cardinality({o[n].items : n \in N}) = Cardinality(N)

\* the containers reachable from c form a tree with root c
IsContainerTree(o, l, c) ==
    \E N \in {{n \in Descendants(o, l, {c}) : IsContainer(o, n)}} : IsTreeOf(o, l, N, c)

\* the number of lines list_items prints for a tree of the containers N:
\* one for the root and one for every child of every container of it
TreeLines(o, l, N) ==
    1 + SumSeq([n \in 1..Len(o) |-> IF n \in N THEN Len(ItemsOf(o, l, n)) ELSE 0])

\* the catalogue items of least and of greatest weight: the one passes
\* every capacity test another item passes, the other fails every test
\* another item fails
LightestAndHeaviest ==
    {x \in 1..Len(ItemRows) :
        \/ \A y \in 1..Len(ItemRows) : ItemRows[x][2] <= ItemRows[y][2]
        \/ \A y \in 1..Len(ItemRows) : ItemRows[x][2] >= ItemRows[y][2]}

\* C30: after every step of the session the hierarchy of the selected
\* container is a tree of containers: no container of it is reachable by
\* two paths and none contains itself. get_current_weight and list_items of
\* the selected container, and add_item of the lightest and of the heaviest
\* catalogue item to it, then have a value; list_items prints one line for the root and one for each
\* child in the tree.
C30_SelectedHierarchyIsTree ==
    [][ container' # 0 =>
          /\ \E N \in {{n \in Descendants(objs', lists', {container'}) :
                                IsContainer(objs', n)}} :
                 /\ IsTreeOf(objs', lists', N, container')
                 /\ Len(list_items(objs', lists', container', 1))
                        = TreeLines(objs', lists', N)
          /\ get_current_weight(objs', lists', container') \in Nat
          /\ \A x \in LightestAndHeaviest :
                 add_item(objs', lists', container', x, FALSE).ret \in BOOLEAN ]_vars

\* C30 witness: a copy of the registered container of the same name as the
\* selected container has been stored in the selected container; the two
\* are different objects with different child lists, and the listing has
\* the two lines of the tree.
C30_Witness ==
    /\ call.op = "add_item"
    /\ call.ret
    /\ IsContainer(objs, call.item)
    /\ objs[call.item].name = objs[call.self].name
    /\ call.item # call.self
    /\ objs[call.item].items # objs[call.self].items
    /\ Holds(objs, lists, call.self, call.item)
    /\ IsContainerTree(objs, lists, call.self)
    /\ Len(list_items(objs, lists, call.self, 1)) = 2

====
